---- MODULE Spec2Model ----
(***************************************************************************)
(* Model of atlas/optimizers/optimizer_utils.py: the Scaler class.         *)
(*                                                                         *)
(* Arrays are sequences of rows, rows are sequences of numbers.  Numbers   *)
(* are binary floating-point values m * 2^e with a significand of MantBits *)
(* bits, rounded to nearest, ties to even, after every arithmetic          *)
(* operation, as numpy's float arithmetic does (numpy's float64 has 53     *)
(* bits; the exponent range is not bounded here, so there is no overflow   *)
(* or underflow).  Division by zero yields inf, -inf or nan as in numpy.   *)
(***************************************************************************)
EXTENDS Integers, Sequences, FiniteSets, TLC

\* ---------------------------------------------------------------- bounds
MantBits == 3
MaxFit == 3
MaxBatch == 2
MaxCols == 3

\* ------------------------------------------------- floating-point numbers
Pow2(k) == 2 ^ k

\* the number of bits of n > 0: 2^(BitLen(n)-1) <= n < 2^BitLen(n)
BitLen(n) == CHOOSE k \in 1 .. 30 : Pow2(k - 1) <= n /\ n < Pow2(k)

Fin(m, e) == [s |-> "fin", m |-> m, e |-> e]
NaN == [s |-> "nan", m |-> 0, e |-> 0]
PInf == [s |-> "inf", m |-> 0, e |-> 0]
NInf == [s |-> "-inf", m |-> 0, e |-> 0]
Zero == Fin(0, 0)
One == Fin(1, 0)

IsFin(a) == a.s = "fin"

\* m * 2^e with m odd (or zero): the canonical form of a finite value
Shifted(m, e, k) == Fin(m \div Pow2(k), e + k)

Canon(m, e) ==
    IF m = 0 THEN Zero
    ELSE Shifted(m, e, CHOOSE j \in 0 .. 29 : m % Pow2(j) = 0 /\ (m \div Pow2(j)) % 2 # 0)

\* the quotient n/d rounded to an integer, ties to even
RoundQuot(n, d) ==
    IF 2 * (n % d) > d \/ (2 * (n % d) = d /\ (n \div d) % 2 = 1)
    THEN (n \div d) + 1
    ELSE n \div d

\* n/d in units of 2^x, rounded to an integer
RoundAt(n, d, x) ==
    Canon(RoundQuot(IF x < 0 THEN n * Pow2(0 - x) ELSE n, IF x < 0 THEN d ELSE d * Pow2(x)), x)

\* the exponent x with 2^(MantBits-1) <= (n/d) / 2^x < 2^MantBits, one of l, l+1
ExpOf(n, d, l) ==
    IF l < 0
    THEN (IF n * Pow2(0 - l) < Pow2(MantBits) * d THEN l ELSE l + 1)
    ELSE (IF n < Pow2(MantBits) * d * Pow2(l) THEN l ELSE l + 1)

\* the float nearest to n/d (n >= 0, d > 0), ties to the even significand
RoundPos(n, d) ==
    IF n = 0 THEN Zero
    ELSE RoundAt(n, d, ExpOf(n, d, BitLen(n) - BitLen(d) - MantBits))

Neg(a) ==
    IF a.s = "fin" THEN Fin(0 - a.m, a.e)
    ELSE IF a.s = "inf" THEN NInf
    ELSE IF a.s = "-inf" THEN PInf
    ELSE NaN

WithSign(negative, a) == IF negative THEN Neg(a) ELSE a

\* the float nearest to n/d for any sign of n (d > 0)
Round(n, d) == WithSign(n < 0, RoundPos(IF n < 0 THEN 0 - n ELSE n, d))

\* the float nearest to m * 2^e
RoundDyadic(m, e) == Round(IF e < 0 THEN m ELSE m * Pow2(e), IF e < 0 THEN Pow2(0 - e) ELSE 1)

FromInt(n) == Round(n, 1)

MinExp(a, b) == IF a.e < b.e THEN a.e ELSE b.e

\* the significand of a in units of 2^x (x <= a.e)
Aligned(a, x) == a.m * Pow2(a.e - x)

\* a < b for finite a, b
FLess(a, b) == Aligned(a, MinExp(a, b)) < Aligned(b, MinExp(a, b))

FLeq(a, b) == a = b \/ FLess(a, b)

\* a + b
FAdd(a, b) ==
    IF a.s = "nan" \/ b.s = "nan" THEN NaN
    ELSE IF ~IsFin(a) /\ ~IsFin(b) THEN (IF a.s = b.s THEN a ELSE NaN)
    ELSE IF ~IsFin(a) THEN a
    ELSE IF ~IsFin(b) THEN b
    ELSE RoundDyadic(Aligned(a, MinExp(a, b)) + Aligned(b, MinExp(a, b)), MinExp(a, b))

\* a - b
FSub(a, b) == FAdd(a, Neg(b))

Sign(a) ==
    IF a.s = "inf" THEN 1
    ELSE IF a.s = "-inf" THEN 0 - 1
    ELSE IF a.m > 0 THEN 1
    ELSE IF a.m < 0 THEN 0 - 1
    ELSE 0

Signed(sgn) == IF sgn > 0 THEN PInf ELSE IF sgn < 0 THEN NInf ELSE NaN

\* a * b
FMul(a, b) ==
    IF a.s = "nan" \/ b.s = "nan" THEN NaN
    ELSE IF ~IsFin(a) \/ ~IsFin(b) THEN Signed(Sign(a) * Sign(b))
    ELSE RoundDyadic(a.m * b.m, a.e + b.e)

\* a / b (numpy true division; the zero denominators that occur are +0)
FDiv(a, b) ==
    IF a.s = "nan" \/ b.s = "nan" THEN NaN
    ELSE IF ~IsFin(a) THEN (IF IsFin(b) THEN Signed(Sign(a) * (IF Sign(b) < 0 THEN 0 - 1 ELSE 1))
                            ELSE NaN)
    ELSE IF ~IsFin(b) THEN Zero
    ELSE IF b.m = 0 THEN Signed(Sign(a))
    ELSE Round((IF b.m < 0 THEN 0 - a.m ELSE a.m) * (IF a.e > b.e THEN Pow2(a.e - b.e) ELSE 1),
               (IF b.m < 0 THEN 0 - b.m ELSE b.m) * (IF a.e < b.e THEN Pow2(b.e - a.e) ELSE 1))

\* c * 4^x and 4a brought to a common scale, for comparing them
SqrtLhs(c, a, x) == IF 2 * x < a.e + 2 THEN c ELSE c * Pow2(2 * x - a.e - 2)

SqrtRhs(a, x) == IF 2 * x < a.e + 2 THEN a.m * Pow2(a.e + 2 - 2 * x) ELSE a.m

\* the float M * 2^x nearest to sqrt(a): (2M-1)^2 * 4^x <= 4a < (2M+1)^2 * 4^x
SqrtAt(a, x) ==
    Canon(CHOOSE M \in Pow2(MantBits - 1) .. Pow2(MantBits) :
              /\ SqrtLhs((2 * M - 1) * (2 * M - 1), a, x) <= SqrtRhs(a, x)
              /\ SqrtRhs(a, x) < SqrtLhs((2 * M + 1) * (2 * M + 1), a, x),
          x)

\* t halved, rounded down
Half(t) == CHOOSE y \in (0 - 40) .. 40 : 2 * y <= t /\ t < 2 * y + 2

\* sqrt(a) for finite a >= 0, rounded: 2^(MantBits-1) <= root / 2^x < 2^MantBits
\* for x half the exponent of 4a, rounded down, less MantBits
FSqrt(a) ==
    IF a.m = 0 THEN Zero
    ELSE SqrtAt(a, Half(BitLen(a.m) + a.e + 1 - 2 * MantBits))

\* ----------------------------------------------------------------- arrays
\* A 2-D array is a sequence of rows; a 1-D array (a statistic) is a row.
NCols(x) == Len(x[1])

Larger(a, b) == IF a < b THEN b ELSE a

\* numpy broadcasting of an (r, c) array against a (k,) array
Broadcastable(x, v) == NCols(x) = Len(v) \/ NCols(x) = 1 \/ Len(v) = 1

\* the arithmetic operators -, +, *, / on two numbers
Apply(op, a, b) ==
    IF op = "-" THEN FSub(a, b)
    ELSE IF op = "+" THEN FAdd(a, b)
    ELSE IF op = "*" THEN FMul(a, b)
    ELSE FDiv(a, b)

Broadcast(op, x, v) ==
    [i \in 1 .. Len(x) |->
        [j \in 1 .. Larger(NCols(x), Len(v)) |->
            Apply(op, x[i][IF NCols(x) = 1 THEN 1 ELSE j], v[IF Len(v) = 1 THEN 1 ELSE j])]]

\* elementwise operation on two 1-D arrays of the same length
Elementwise(op, u, v) == [j \in 1 .. Len(u) |-> Apply(op, u[j], v[j])]

RECURSIVE np_concatenate(_, _)
np_concatenate(source_tasks, field) ==
    IF source_tasks = <<>> THEN <<>>
    ELSE Head(source_tasks)[field] \o np_concatenate(Tail(source_tasks), field)

np_amax(x) ==
    [j \in 1 .. NCols(x) |->
        CHOOSE v \in {x[i][j] : i \in 1 .. Len(x)} : \A i \in 1 .. Len(x) : FLeq(x[i][j], v)]

np_amin(x) ==
    [j \in 1 .. NCols(x) |->
        CHOOSE v \in {x[i][j] : i \in 1 .. Len(x)} : \A i \in 1 .. Len(x) : FLeq(v, x[i][j])]

\* add.reduce over axis 0: rows are accumulated one after the other
RECURSIVE np_sum(_, _, _)
np_sum(x, j, n) == IF n = 1 THEN x[1][j] ELSE FAdd(np_sum(x, j, n - 1), x[n][j])

np_mean(x) == [j \in 1 .. NCols(x) |-> FDiv(np_sum(x, j, Len(x)), FromInt(Len(x)))]

\* population standard deviation: sqrt(mean(|x - mean(x)|^2))
Squares(x) == [i \in 1 .. Len(x) |-> [j \in 1 .. NCols(x) |-> FMul(x[i][j], x[i][j])]]

Sqrts(v) == [j \in 1 .. Len(v) |-> FSqrt(v[j])]

np_std(x) == Sqrts(np_mean(Squares(Broadcast("-", x, np_mean(x)))))

\* np.where(std == 0., 1., std)
np_where(std) == [j \in 1 .. Len(std) |-> IF std[j] = Zero THEN One ELSE std[j]]

\* --------------------------------------------------- results of operations
Ok(v) == [exc |-> "none", val |-> v]
Raise(e) == [exc |-> e, val |-> <<>>]

\* ----------------------------------------------------------------- Scaler
SUPP_TYPES == {"standardization", "normalization", "identity"}

\* a Python dict or the attributes of an object: a function on its keys
Empty == [k \in {} |-> k]
Has(d, k) == k \in DOMAIN d
Set(d, k, v) == (k :> v) @@ d

identity(x, direction) == x

standardize(x, mean, std, direction) ==
    IF ~Broadcastable(x, mean) THEN Raise("ValueError")
    ELSE IF direction = "forward"
         THEN Ok(Broadcast("/", Broadcast("-", x, mean), std))
         ELSE Ok(Broadcast("+", Broadcast("*", x, std), mean))

\* normalize dividing by max instead of the range max - min
normalize_by_max(x, min, max, direction) ==
    IF ~Broadcastable(x, min) THEN Raise("ValueError")
    ELSE IF direction = "forward"
         THEN Ok(Broadcast("/", Broadcast("-", x, min), max))
         ELSE Ok(Broadcast("+", Broadcast("*", x, max), min))

normalize(x, min, max, direction) ==
    IF ~Broadcastable(x, min) THEN Raise("ValueError")
    ELSE IF direction = "forward"
         THEN Ok(Broadcast("/", Broadcast("-", x, min), Elementwise("-", max, min)))
         ELSE Ok(Broadcast("+", Broadcast("*", x, Elementwise("-", max, min)), min))

\* the statistics dict of one field for a scaling type
compute_field_stats(type, all_source) ==
    IF type = "normalization"
    THEN [max |-> np_amax(all_source), min |-> np_amin(all_source)]
    ELSE IF type = "standardization"
    THEN [mean |-> np_mean(all_source), std |-> np_where(np_std(all_source))]
    ELSE Empty

\* _compute_stats guarded against re-fitting: statistics are computed once
compute_stats_once(obj, source_tasks) ==
    IF source_tasks = <<>> THEN Raise("ValueError")
    ELSE IF Has(obj, "param_stats") THEN Ok(obj)
    ELSE LET all_source_params == np_concatenate(source_tasks, "params")
             all_source_values == np_concatenate(source_tasks, "values")
             o1 == Set(obj, "param_stats", compute_field_stats(obj.param_type, all_source_params))
         IN  Ok(Set(o1, "value_stats", compute_field_stats(obj.value_type, all_source_values)))

\* Scaler._compute_stats: the object after the call, or the exception
compute_stats(obj, source_tasks) ==
    IF source_tasks = <<>> THEN Raise("ValueError")
    ELSE LET all_source_params == np_concatenate(source_tasks, "params")
             all_source_values == np_concatenate(source_tasks, "values")
             o1 == Set(obj, "param_stats", compute_field_stats(obj.param_type, all_source_params))
         IN  Ok(Set(o1, "value_stats", compute_field_stats(obj.value_type, all_source_values)))

\* the loop of fit_transform_tasks standardizing in the reverse direction
fit_transform_field_reverse(type, x, stats) ==
    IF type = "normalization" THEN normalize(x, stats.min, stats.max, "forward")
    ELSE IF type = "standardization" THEN standardize(x, stats.mean, stats.std, "reverse")
    ELSE Ok(identity(x, "forward"))

\* one field of one task in the loop of fit_transform_tasks
fit_transform_field(type, x, stats) ==
    IF type = "normalization" THEN normalize(x, stats.min, stats.max, "forward")
    ELSE IF type = "standardization" THEN standardize(x, stats.mean, stats.std, "forward")
    ELSE Ok(identity(x, "forward"))

\* Scaler.transform on an array [ndim, rows]
transform(obj, sample, type) ==
    IF sample.ndim # 2 THEN Raise("AssertionError")
    ELSE LET mode == IF type = "params" THEN obj.param_type ELSE obj.value_type
             attr == IF type = "params" THEN "param_stats" ELSE "value_stats"
         IN  IF mode = "identity" THEN Ok(identity(sample.rows, "forward"))
             ELSE IF ~Has(obj, attr) THEN Raise("AttributeError")
             ELSE IF mode = "normalization"
             THEN normalize(sample.rows, obj[attr].min, obj[attr].max, "forward")
             ELSE standardize(sample.rows, obj[attr].mean, obj[attr].std, "forward")

\* inverse_transform applying the reverse formulas
inverse_transform_reverse(obj, sample, type) ==
    IF sample.ndim # 2 THEN Raise("AssertionError")
    ELSE LET mode == IF type = "params" THEN obj.param_type ELSE obj.value_type
             attr == IF type = "params" THEN "param_stats" ELSE "value_stats"
         IN  IF mode = "identity" THEN Ok(identity(sample.rows, "reverse"))
             ELSE IF ~Has(obj, attr) THEN Raise("AttributeError")
             ELSE IF mode = "normalization"
             THEN normalize(sample.rows, obj[attr].min, obj[attr].max, "reverse")
             ELSE standardize(sample.rows, obj[attr].mean, obj[attr].std, "reverse")

\* Scaler.inverse_transform on an array [ndim, rows]
inverse_transform(obj, sample, type) ==
    IF sample.ndim # 2 THEN Raise("AssertionError")
    ELSE LET mode == IF type = "params" THEN obj.param_type ELSE obj.value_type
             attr == IF type = "params" THEN "param_stats" ELSE "value_stats"
         IN  IF mode = "identity" THEN Ok(identity(sample.rows, "reverse"))
             ELSE IF ~Has(obj, attr) THEN Raise("AttributeError")
             ELSE IF mode = "normalization"
             THEN normalize(sample.rows, obj[attr].min, obj[attr].max, "forward")
             ELSE standardize(sample.rows, obj[attr].mean, obj[attr].std, "forward")

\* the exception of one pass of a loop over a task (params first), or "none"
Raised(r) == IF r.params.exc # "none" THEN r.params.exc ELSE r.values.exc

\* the exception that ends a loop whose passes have the outcomes res: that
\* of the first pass that raises, or "none"
LoopRaised(res) ==
    IF \A i \in 1 .. Len(res) : Raised(res[i]) = "none" THEN "none"
    ELSE Raised(res[CHOOSE k \in 1 .. Len(res) :
                        /\ Raised(res[k]) # "none"
                        /\ \A l \in 1 .. k - 1 : Raised(res[l]) = "none"])

TaskOf(r) == [params |-> r.params.val, values |-> r.values.val]

\* the transform calls of the loop of transform_tasks, one pass per task
transform_each(obj, tasks) ==
    [i \in 1 .. Len(tasks) |->
        [params |-> transform(obj, [ndim |-> 2, rows |-> tasks[i].params], "params"),
         values |-> transform(obj, [ndim |-> 2, rows |-> tasks[i].values], "values")]]

\* what transform_tasks returns after a loop whose passes had the outcomes
\* res: the append is after the loop, so the list holds the last task only,
\* and trans_task is unbound when the loop never ran
append_after_loop(res) ==
    IF LoopRaised(res) # "none" THEN Raise(LoopRaised(res))
    ELSE IF res = <<>> THEN Raise("UnboundLocalError")
    ELSE Ok(<<TaskOf(res[Len(res)])>>)

\* Scaler.transform_tasks
transform_tasks(obj, tasks) == append_after_loop(transform_each(obj, tasks))

\* the transformations of the loop of fit_transform_tasks, one pass per task
fit_transform_each(obj, source_tasks) ==
    [i \in 1 .. Len(source_tasks) |->
        [params |-> fit_transform_field(obj.param_type, source_tasks[i].params,
                                        obj.param_stats),
         values |-> fit_transform_field(obj.value_type, source_tasks[i].values,
                                        obj.value_stats)]]

\* what fit_transform_tasks returns after a loop whose passes had the
\* outcomes res: each pass appends its task
append_in_loop(res) ==
    IF LoopRaised(res) # "none" THEN Raise(LoopRaised(res))
    ELSE Ok([i \in 1 .. Len(res) |-> TaskOf(res[i])])

\* Scaler.fit_transform_tasks after _compute_stats (obj holds the statistics)
fit_transform_loop(obj, source_tasks) == append_in_loop(fit_transform_each(obj, source_tasks))

\* Scaler.fit_transform_tasks, given the outcome st of _compute_stats: the
\* object after the call, whether statistics were stored, the caller's task
\* list after the call (the loop builds new dicts and arrays and assigns to
\* none of the input's), and the result
fit_transform_tasks(obj, source_tasks, st) ==
    IF st.exc # "none"
    THEN [obj |-> obj, stored |-> FALSE, tasks |-> source_tasks, res |-> Raise(st.exc)]
    ELSE [obj |-> st.val, stored |-> TRUE, tasks |-> source_tasks,
          res |-> fit_transform_loop(st.val, source_tasks)]

\* __init__ testing param_type twice and value_type never
Scaler_init_unchecked_value(param_type, value_type) ==
    IF param_type \notin SUPP_TYPES THEN [obj |-> Empty, exc |-> "NotImplementedError"]
    ELSE [obj |-> Set(Set(Set(Empty, "param_type", param_type), "value_type", value_type),
                      "is_fit", FALSE),
          exc |-> "none"]

\* Scaler.__init__: the attributes set, and whether NotImplementedError is raised
Scaler_init(param_type, value_type) ==
    IF param_type \notin SUPP_TYPES THEN [obj |-> Empty, exc |-> "NotImplementedError"]
    ELSE LET o1 == Set(Empty, "param_type", param_type)
         IN  IF value_type \notin SUPP_TYPES THEN [obj |-> o1, exc |-> "NotImplementedError"]
             ELSE [obj |-> Set(Set(o1, "value_type", value_type), "is_fit", FALSE),
                   exc |-> "none"]

\* ------------------------------------------------------------------ inputs
\* 1.0 and 1.5
Vals == {Fin(1, 0), Fin(3, 0 - 1)}

TypeArgs == SUPP_TYPES \cup {"minmax"}

Fields == {"params", "values"}

\* tasks of one row with two parameters and one objective value; the second
\* parameter is the same in every task
Tasks ==
    {[params |-> <<<<Fin(1, 0), Fin(3, 0 - 1)>>>>, values |-> <<<<Fin(1, 0)>>>>],
     [params |-> <<<<Fin(3, 0 - 1), Fin(3, 0 - 1)>>>>, values |-> <<<<Fin(3, 0 - 1)>>>>]}

SeqsUpTo(S, n) == UNION {[1 .. k -> S] : k \in 0 .. n}

FitInputs == SeqsUpTo(Tasks, MaxFit)

BatchInputs == SeqsUpTo(Tasks, MaxBatch)

NoSample == [ndim |-> 0, rows |-> <<>>]

\* 2-D samples of one row of 1 .. MaxCols equal entries, and a 1-D and a 3-D
\* array
Samples ==
    {[ndim |-> 2, rows |-> <<[j \in 1 .. c |-> v]>>] : v \in Vals, c \in 1 .. MaxCols}
        \cup {[ndim |-> 1, rows |-> <<>>], [ndim |-> 3, rows |-> <<>>]}

\* ------------------------------------------------------------------- state
VARIABLES
    self,        \* the attributes of the Scaler object
    constructed, \* the caller holds a Scaler
    call,        \* the last call: operation, arguments, outcome (exception, return
                 \* value, the task list argument after the call)
    fitted_on,   \* the tasks of the last fit_transform_tasks that stored statistics
    refit        \* that call was made on a Scaler that already held statistics

vars == <<self, constructed, call, fitted_on, refit>>

NoCall ==
    [op |-> "none", types |-> <<>>, tasks |-> <<>>, after |-> <<>>, sample |-> NoSample,
     type |-> "none", exc |-> "none", ret |-> <<>>, src |-> NoSample]

Idle == call.op = "none"

Init ==
    /\ self = Empty
    /\ constructed = FALSE
    /\ call = NoCall
    /\ fitted_on = <<>>
    /\ refit = FALSE

\* Scaler(param_type, value_type)
call_init ==
    /\ ~constructed
    /\ Idle
    /\ \E p \in TypeArgs, v \in TypeArgs :
        \E r \in {Scaler_init(p, v)} :
            /\ self' = r.obj
            /\ constructed' = (r.exc = "none")
            /\ call' = [NoCall EXCEPT !.op = "__init__", !.exc = r.exc,
                                      !.types = <<p, v>>]
    /\ UNCHANGED <<fitted_on, refit>>

\* scaler.fit_transform_tasks(source_tasks)
call_fit_transform_tasks ==
    /\ constructed
    /\ Idle
    /\ \E source_tasks \in FitInputs :
        \E st \in {compute_stats(self, source_tasks)} :
        \E r \in {fit_transform_tasks(self, source_tasks, st)} :
            /\ self' = r.obj
            /\ call' = [NoCall EXCEPT !.op = "fit_transform_tasks", !.tasks = source_tasks,
                                      !.after = r.tasks, !.exc = r.res.exc, !.ret = r.res.val]
            /\ fitted_on' = IF r.stored THEN source_tasks ELSE fitted_on
            /\ refit' = IF r.stored THEN Has(self, "param_stats") ELSE refit
    /\ UNCHANGED constructed

\* scaler.transform(sample, type)
call_transform ==
    /\ constructed
    /\ Idle
    /\ \E sample \in Samples, type \in Fields :
        \E r \in {transform(self, sample, type)} :
            call' = [NoCall EXCEPT !.op = "transform", !.sample = sample, !.type = type,
                                   !.exc = r.exc, !.ret = r.val]
    /\ UNCHANGED <<self, constructed, fitted_on, refit>>

\* scaler.inverse_transform(sample, type), on a new sample or on the array
\* that transform has just returned
call_inverse_transform ==
    /\ constructed
    /\ \/ /\ Idle
          /\ \E sample \in Samples, type \in Fields :
              \E r \in {inverse_transform(self, sample, type)} :
                  call' = [NoCall EXCEPT !.op = "inverse_transform", !.sample = sample,
                                         !.type = type, !.exc = r.exc, !.ret = r.val]
       \/ /\ call.op = "transform"
          /\ call.exc = "none"
          /\ \E sample \in {[ndim |-> 2, rows |-> call.ret]} :
             \E r \in {inverse_transform(self, sample, call.type)} :
                 call' = [NoCall EXCEPT !.op = "inverse_transform", !.sample = sample,
                                        !.type = call.type, !.exc = r.exc, !.ret = r.val,
                                        !.src = call.sample]
    /\ UNCHANGED <<self, constructed, fitted_on, refit>>

\* transform_tasks recomputing the statistics on the tasks it is given
call_transform_tasks_refitting ==
    /\ constructed
    /\ Idle
    /\ \E tasks \in BatchInputs :
        \E r \in {transform_tasks(self, tasks)} :
            /\ call' = [NoCall EXCEPT !.op = "transform_tasks", !.tasks = tasks,
                                      !.exc = r.exc, !.ret = r.val]
            /\ self' = IF tasks = <<>> THEN self ELSE compute_stats(self, tasks).val
    /\ UNCHANGED <<constructed, fitted_on, refit>>

\* scaler.transform_tasks(tasks)
call_transform_tasks ==
    /\ constructed
    /\ Idle
    /\ \E tasks \in BatchInputs :
        \E r \in {transform_tasks(self, tasks)} :
            call' = [NoCall EXCEPT !.op = "transform_tasks", !.tasks = tasks,
                                   !.exc = r.exc, !.ret = r.val]
    /\ UNCHANGED <<self, constructed, fitted_on, refit>>

\* the call returns (or its exception reaches the caller); a Scaler whose
\* construction failed does not exist
Return ==
    /\ ~Idle
    /\ call' = NoCall
    /\ self' = IF constructed THEN self ELSE Empty
    /\ UNCHANGED <<constructed, fitted_on, refit>>

Next ==
    \/ call_init
    \/ call_fit_transform_tasks
    \/ call_transform
    \/ call_inverse_transform
    \/ call_transform_tasks
    \/ Return

Spec == Init /\ [][Next]_vars
\* ------------------------------------------------------------- properties
Fitted == constructed /\ Has(self, "param_stats") /\ Has(self, "value_stats")

ModeOf(type) == IF type = "params" THEN self.param_type ELSE self.value_type

StatsOf(type) == IF type = "params" THEN self.param_stats ELSE self.value_stats

Arr2(x) == [ndim |-> 2, rows |-> x]

\* the entries of column j of a field over all rows of all tasks
Entries(T, f, j) == {T[i][f][r][j] : i \in 1 .. Len(T), r \in {1}}

\* the column count of the data the statistics of a field were fitted on
FittedCols(f) == NCols(fitted_on[1][f])

SingleCalls == {"transform", "inverse_transform"}

ReadOnlyCalls == {"transform", "inverse_transform", "transform_tasks"}

\* C1: transform_tasks on a fitted Scaler returns one transformed task per
\* input task, in input order, entry i holding transform of task i's params
\* and values (for every length n >= 0).
C1_OneEntryPerTask ==
    (Fitted /\ call.op = "transform_tasks") =>
        /\ call.exc = "none"
        /\ Len(call.ret) = Len(call.tasks)
        /\ \A i \in 1 .. Len(call.tasks) :
            /\ call.ret[i].params = transform(self, Arr2(call.tasks[i].params), "params").val
            /\ call.ret[i].values = transform(self, Arr2(call.tasks[i].values), "values").val

\* C2: is_fit is false from construction until the first fit_transform_tasks
\* call and true in every state after a fit_transform_tasks call completed.
C2_FitFlagTracksLifecycle ==
    constructed => (self.is_fit <=> fitted_on # <<>>)

\* C3: on a fitted Scaler no transform, inverse_transform or transform_tasks
\* call, returning or failing, changes param_type, value_type, param_stats or
\* value_stats; a call that changes the stored state is fit_transform_tasks.
C3_ReadOnlyAfterFit ==
    [][/\ (Fitted /\ call'.op \in ReadOnlyCalls) =>
            /\ self'.param_type = self.param_type
            /\ self'.value_type = self.value_type
            /\ Has(self', "param_stats") /\ self'.param_stats = self.param_stats
            /\ Has(self', "value_stats") /\ self'.value_stats = self.value_stats
       /\ (constructed /\ self' # self) => call'.op = "fit_transform_tasks"]_vars

C3_Witness ==
    /\ Fitted
    /\ call.op = "inverse_transform"
    /\ call.exc = "ValueError"
    /\ self.param_type = "standardization"

\* C4: construction fails with the unsupported-type error iff one of the two
\* arguments is not a supported type; on success the Scaler holds exactly the
\* two modes given, is_fit false, and no param_stats or value_stats.
C4_Construction ==
    call.op = "__init__" =>
        LET ok(t) == t \in {"standardization", "normalization", "identity"}
        IN  /\ call.exc \in {"none", "NotImplementedError"}
            /\ call.exc = "NotImplementedError" <=> (~ok(call.types[1]) \/ ~ok(call.types[2]))
            /\ constructed <=> call.exc = "none"
            /\ call.exc = "none" =>
                /\ DOMAIN self = {"param_type", "value_type", "is_fit"}
                /\ self.param_type = call.types[1]
                /\ self.value_type = call.types[2]
                /\ self.is_fit = FALSE

C4_Witness ==
    /\ call.op = "__init__"
    /\ call.exc = "NotImplementedError"
    /\ call.types[1] = "identity"
    /\ call.types[2] = "minmax"

C7_ShapeContract ==
    (Fitted /\ call.op \in SingleCalls) =>
        ((\/ call.sample.ndim # 2
          \/ NCols(call.sample.rows) # FittedCols(call.type)) => call.exc # "none")

C9_ConstantColumnStd ==
    (call.op = "fit_transform_tasks" /\ call.exc = "none") =>
        \A f \in Fields : ModeOf(f) = "standardization" =>
            \A j \in 1 .. NCols(call.tasks[1][f]) :
                Cardinality(Entries(call.tasks, f, j)) = 1 =>
                    /\ StatsOf(f).std[j] = One
                    /\ \A i \in 1 .. Len(call.tasks) :
                           call.ret[i][f][1][j]
                               = FSub(call.tasks[i][f][1][j], StatsOf(f).mean[j])

\* C10: a second fit_transform_tasks is not blocked; after it the Scaler is
\* the Scaler that a fresh one of the same modes becomes when fitted on the
\* second collection alone, and later transform calls use those statistics.
FreshFit(T) == compute_stats(Scaler_init(self.param_type, self.value_type).obj, T).val

C10_RefitOverwrites ==
    (refit /\ call.op \in {"fit_transform_tasks", "transform"}) =>
        \A fresh \in {FreshFit(fitted_on)} :
            /\ self = fresh
            /\ call.op = "fit_transform_tasks" /\ call.tasks # <<>> =>
                   call.exc = "none" /\ fitted_on = call.tasks
            /\ call.op = "transform" =>
                   [exc |-> call.exc, val |-> call.ret]
                       = transform(fresh, call.sample, call.type)

C10_Witness ==
    /\ refit
    /\ call.op = "transform"
    /\ call.exc = "none"
    /\ call.type = "params"
    /\ self.param_type = "normalization"
    /\ call.ret # call.sample.rows
====
